---- MODULE Spec2Model ----
(***************************************************************************)
(* Task Board: the React view (frontend/src/App.js) over the four REST     *)
(* calls of frontend/src/lib/api.js.  The view's state hooks, its event    *)
(* handlers (each split at its await into the part that issues the call    *)
(* and the continuation that handles the response), the save-status timer  *)
(* and a REST backend holding the authoritative task list.                 *)
(***************************************************************************)
EXTENDS Integers, Sequences, FiniteSets, TLC

\* ------------------------------------------------------------- bounds
MaxMutations == 2     \* add / toggle / delete calls issued in one run
MaxTitleLen == 3      \* longest text typed into the input

\* ---------------------------------------------------------- constants
MinTitleLen == 3

ValidationMsg == "Task title must be at least 3 characters."
LoadMsg == "Could not load tasks. Please refresh."
AddMsg == "Could not add task. Please try again."
UpdateMsg == "Could not update task. Please try again."
DeleteMsg == "Could not delete task. Please try again."

Chars == {" ", "a"}
SeedTitle == <<"a", "a", "a">>
\* every text of at most MaxTitleLen characters
TitleInputs == UNION {[1..k -> Chars] : k \in 0..MaxTitleLen}
\* the text typed for a new task, padded with a blank on both sides
Typed == {<<" ">> \o SeedTitle \o <<" ">>}

\* ------------------------------------------------------ pure functions
RECURSIVE TrimStart(_)
TrimStart(s) ==
  IF s # <<>> /\ Head(s) = " " THEN TrimStart(Tail(s)) ELSE s

RECURSIVE TrimEnd(_)
TrimEnd(s) ==
  IF s # <<>> /\ s[Len(s)] = " " THEN TrimEnd(SubSeq(s, 1, Len(s) - 1)) ELSE s

\* mutant: the raw text is measured
Trim_None(s) == s

\* String.prototype.trim
Trim(s) == TrimEnd(TrimStart(s))

\* prev.map((t) => (t.id === task.id ? { ...t, completed: !t.completed } : t))
ToggleOptimistic(prev, task) ==
  [i \in 1..Len(prev) |->
     IF prev[i].id = task.id
     THEN [prev[i] EXCEPT !.completed = ~prev[i].completed] ELSE prev[i]]

\* mutant: the response is dropped, the optimistic entry stays
ToggleReconcile_Keep(prev, task, resTask) == prev

\* prev.map((t) => (t.id === task.id ? res.task : t))
ToggleReconcile(prev, task, resTask) ==
  [i \in 1..Len(prev) |-> IF prev[i].id = task.id THEN resTask ELSE prev[i]]

\* mutant: the revert flips the flag once more
ToggleRevert_Flip(prev, task) ==
  [i \in 1..Len(prev) |->
     IF prev[i].id = task.id
     THEN [prev[i] EXCEPT !.completed = ~prev[i].completed] ELSE prev[i]]

\* mutant: the revert puts the clicked row back when the list lacks it
ToggleRevert_Reinsert(prev, task) ==
  IF \E i \in 1..Len(prev) : prev[i].id = task.id
  THEN [i \in 1..Len(prev) |->
          IF prev[i].id = task.id
          THEN [prev[i] EXCEPT !.completed = task.completed] ELSE prev[i]]
  ELSE Append(prev, task)

\* prev.map((t) => (t.id === task.id ? { ...t, completed: task.completed } : t))
ToggleRevert(prev, task) ==
  [i \in 1..Len(prev) |->
     IF prev[i].id = task.id
     THEN [prev[i] EXCEPT !.completed = task.completed] ELSE prev[i]]

\* p.filter((t) => t.id !== task.id)
DeleteOptimistic(p, task) == SelectSeq(p, LAMBDA t : t.id # task.id)

\* mutant: the entries the current list lacks are put back at its end
DeleteRestore_Reinsert(p, prev) ==
  p \o SelectSeq(prev, LAMBDA t : \A i \in 1..Len(p) : p[i].id # t.id)

\* setTasks(prev) in onDelete's catch
DeleteRestore(p, prev) == prev

\* mutant: the new task is put first
AddAppend_Front(prev, resTask) == <<resTask>> \o prev

\* [...prev, res.task]
AddAppend(prev, resTask) == Append(prev, resTask)

VARIABLES
  tasks,      \* useState([])       the local task list
  loading,    \* useState(true)
  error,      \* useState("")       the error banner
  title,      \* useState("")       the input's text
  focusMode,  \* useState(false)
  saveState,  \* useState("idle")   idle | saving | saved | error
  timer,      \* window.__taskBoardSaveTimeout: the pending revert, if any
  calls,      \* the handlers suspended at their await, with their closures
  server,     \* the backend's task list
  nextId,     \* the id the backend assigns next
  started,    \* mutating actions issued so far
  done,       \* ghost: the mutating call whose response was handled last
  newest      \* ghost: how the mutating call issued last has ended

vars == <<tasks, loading, error, title, focusMode, saveState, timer, calls,
          server, nextId, started, done, newest>>

\* mutant: the filter keeps the completed tasks
visibleTasks_Completed ==
  IF ~focusMode THEN tasks ELSE SelectSeq(tasks, LAMBDA t : t.completed)

\* tasks.filter((t) => !t.completed) when focus mode is on
visibleTasks ==
  IF ~focusMode THEN tasks ELSE SelectSeq(tasks, LAMBDA t : ~t.completed)

NoTimer == [armed |-> FALSE, stale |-> FALSE]
NoCall == [id |-> 0, ok |-> FALSE, late |-> FALSE]

\* the backend's list when the page is opened: one open task, one completed
Seed ==
  << [id |-> 1, title |-> SeedTitle, completed |-> FALSE],
     [id |-> 2, title |-> SeedTitle, completed |-> TRUE] >>

Mutating == {"create", "patch", "delete"}
InFlight(kinds) == {c \in calls : c.kind \in kinds}
Pending == InFlight(Mutating)

Init ==
  /\ tasks = <<>>
  /\ loading = TRUE
  /\ error = ""
  /\ title = <<>>
  /\ focusMode = FALSE
  /\ saveState = "idle"
  /\ timer = NoTimer
  /\ server = Seed
  /\ nextId = Len(Seed) + 1
  /\ calls = {[kind |-> "list", seq |-> 0, st |-> "req"]}
  /\ started = 0
  /\ done = NoCall
  /\ newest = "none"

\* ------------------------------------------------------------ backend
ServerHas(id) == \E i \in 1..Len(server) : server[i].id = id
ServerTask(id) == server[CHOOSE i \in 1..Len(server) : server[i].id = id]

View == <<tasks, loading, error, title, focusMode, saveState, timer,
          started, done, newest>>

\* GET /tasks answered
ServerList(c) ==
  /\ c.kind = "list" /\ c.st = "req"
  /\ calls' = (calls \ {c}) \cup {[c EXCEPT !.st = "ok"] @@ [data |-> server]}
  /\ UNCHANGED <<server, nextId, View>>

\* POST /tasks answered
ServerCreate(c) ==
  /\ c.kind = "create" /\ c.st = "req"
  /\ LET t == [id |-> nextId, title |-> c.title, completed |-> FALSE]
     IN /\ server' = Append(server, t)
        /\ calls' = (calls \ {c}) \cup {[c EXCEPT !.st = "ok"] @@ [res |-> t]}
  /\ nextId' = nextId + 1
  /\ UNCHANGED View

\* PATCH /tasks/{id} answered
ServerPatch(c) ==
  /\ c.kind = "patch" /\ c.st = "req"
  /\ ServerHas(c.task.id)
  /\ LET t == [ServerTask(c.task.id) EXCEPT !.completed = c.completed]
     IN /\ server' = [i \in 1..Len(server) |->
                      IF server[i].id = t.id THEN t ELSE server[i]]
        /\ calls' = (calls \ {c}) \cup {[c EXCEPT !.st = "ok"] @@ [res |-> t]}
  /\ UNCHANGED <<nextId, View>>

\* DELETE /tasks/{id} answered
ServerDelete(c) ==
  /\ c.kind = "delete" /\ c.st = "req"
  /\ ServerHas(c.task.id)
  /\ server' = SelectSeq(server, LAMBDA s : s.id # c.task.id)
  /\ calls' = (calls \ {c}) \cup {[c EXCEPT !.st = "ok"]}
  /\ UNCHANGED <<nextId, View>>

\* --------------------------------------------------------------- view
\* setSavedSoon: show "saved", drop the pending revert and arm a new one
SetSavedSoon ==
  /\ saveState' = "saved"
  /\ timer' = [armed |-> TRUE, stale |-> FALSE]

\* mutant: a status of error is kept when the next action starts
Begin_KeepError ==
  /\ error' = ""
  /\ saveState' = IF saveState = "error" THEN "error" ELSE "saving"
  /\ started' = started + 1
  /\ newest' = "pending"
  /\ timer' = IF timer.armed /\ saveState = "saved"
              THEN [timer EXCEPT !.stale = TRUE] ELSE timer

\* add, toggle and delete set the status and leave the timeout alone; the ghost
\* flag stale records that one of them started while the status was "saved"
\* with the revert pending
Begin ==
  /\ error' = ""
  /\ saveState' = "saving"
  /\ started' = started + 1
  /\ newest' = "pending"
  /\ timer' = IF timer.armed /\ saveState = "saved"
              THEN [timer EXCEPT !.stale = TRUE] ELSE timer

\* mutant: the catch leaves the status as it is
Catch_NoStatus(msg) ==
  /\ saveState' = saveState
  /\ error' = msg

\* mutant: the catch leaves the banner as it is
Catch_NoBanner(msg) ==
  /\ saveState' = "error"
  /\ error' = error

\* the catch blocks: setSaveState("error"); setError(msg)
Catch(msg) ==
  /\ saveState' = "error"
  /\ error' = msg

\* mutant: the timeout's callback leaves the status as it is
TimerFire_NoRevert ==
  /\ timer.armed
  /\ timer' = NoTimer
  /\ UNCHANGED <<tasks, loading, error, title, focusMode, saveState, calls,
                 server, nextId, started, done, newest>>

\* the timeout's callback: setSaveState("idle")
TimerFire ==
  /\ timer.armed
  /\ saveState' = "idle"
  /\ timer' = NoTimer
  /\ UNCHANGED <<tasks, loading, error, title, focusMode, calls, server,
                 nextId, started, done, newest>>

\* load, up to its await (the refresh button is disabled while loading)
Refresh ==
  /\ ~loading
  /\ loading' = TRUE
  /\ error' = ""
  /\ calls' = calls \cup {[kind |-> "list", seq |-> 0, st |-> "req"]}
  /\ UNCHANGED <<tasks, title, focusMode, saveState, timer, server, nextId,
                 started, done, newest>>

\* load, after its await resolved
LoadOk(c) ==
  /\ c.kind = "list" /\ c.st = "ok"
  /\ tasks' = c.data
  /\ loading' = FALSE
  /\ calls' = calls \ {c}
  /\ UNCHANGED <<error, title, focusMode, saveState, timer, server, nextId,
                 started, done, newest>>

\* mutant: the catch of load empties the list
LoadFail_Clear(c) ==
  /\ c.kind = "list" /\ c.st = "req"
  /\ error' = LoadMsg
  /\ tasks' = <<>>
  /\ loading' = FALSE
  /\ calls' = calls \ {c}
  /\ UNCHANGED <<title, focusMode, saveState, timer, server, nextId,
                 started, done, newest>>

\* load, after its await rejected
LoadFail(c) ==
  /\ c.kind = "list" /\ c.st = "req"
  /\ error' = LoadMsg
  /\ loading' = FALSE
  /\ calls' = calls \ {c}
  /\ UNCHANGED <<tasks, title, focusMode, saveState, timer, server, nextId,
                 started, done, newest>>

\* the input's onChange
SetTitle(s) ==
  /\ s # title
  /\ title' = s
  /\ UNCHANGED <<tasks, loading, error, focusMode, saveState, timer, calls,
                 server, nextId, started, done, newest>>

\* onKeyDown with Escape
Escape ==
  /\ title # <<>>
  /\ title' = <<>>
  /\ UNCHANGED <<tasks, loading, error, focusMode, saveState, timer, calls,
                 server, nextId, started, done, newest>>

\* title.trim().length < 3
TooShort(s) == Len(Trim(s)) < MinTitleLen

\* onAdd, the title failing validation
OnAddRejected ==
  /\ TooShort(title)
  /\ error' = ValidationMsg
  /\ UNCHANGED <<tasks, loading, title, focusMode, saveState, timer, calls,
                 server, nextId, started, done, newest>>

\* onAdd, up to its await
OnAdd ==
  /\ ~TooShort(title)
  /\ started < MaxMutations
  /\ Begin
  /\ LET c == [kind |-> "create", seq |-> started + 1, st |-> "req",
               title |-> Trim(title)]
     IN calls' = calls \cup {c}
  /\ UNCHANGED <<tasks, loading, title, focusMode, server, nextId, done>>

\* ghost: the response of c has been handled; late when a toggle of the same
\* task that was issued after c had its successful response handled before
Handled(c, ok) ==
  /\ done' = [id |-> IF c.kind = "create" THEN 0 ELSE c.task.id, ok |-> ok,
              late |-> c.kind = "patch" /\ ok /\ c.overtaken]
  /\ newest' = IF c.seq # started THEN newest
               ELSE IF ok THEN "ok" ELSE "fail"

\* ghost: the toggles of c's task issued before c and still awaited
Overtake(cs, c) ==
  {IF d.kind = "patch" /\ d.task.id = c.task.id /\ d.seq < c.seq
   THEN [d EXCEPT !.overtaken = TRUE] ELSE d : d \in cs}

\* onAdd, after its await resolved
OnAddOk(c) ==
  /\ c.kind = "create" /\ c.st = "ok"
  /\ tasks' = AddAppend(tasks, c.res)
  /\ title' = <<>>
  /\ SetSavedSoon
  /\ calls' = calls \ {c}
  /\ Handled(c, TRUE)
  /\ UNCHANGED <<loading, error, focusMode, server, nextId, started>>

\* onAdd's catch
OnAddFail(c) ==
  /\ c.kind = "create" /\ c.st = "req"
  /\ Catch(AddMsg)
  /\ calls' = calls \ {c}
  /\ Handled(c, FALSE)
  /\ UNCHANGED <<tasks, loading, title, focusMode, timer, server, nextId,
                 started>>

\* onToggle(task), up to its await; task is the rendered row's entry
OnToggle(task) ==
  /\ started < MaxMutations
  /\ Begin
  /\ tasks' = ToggleOptimistic(tasks, task)
  /\ LET c == [kind |-> "patch", seq |-> started + 1, st |-> "req",
               task |-> task, completed |-> ~task.completed,
               overtaken |-> FALSE]
     IN calls' = calls \cup {c}
  /\ UNCHANGED <<loading, title, focusMode, server, nextId, done>>

\* onToggle, after its await resolved
OnToggleOk(c) ==
  /\ c.kind = "patch" /\ c.st = "ok"
  /\ tasks' = ToggleReconcile(tasks, c.task, c.res)
  /\ SetSavedSoon
  /\ calls' = Overtake(calls \ {c}, c)
  /\ Handled(c, TRUE)
  /\ UNCHANGED <<loading, error, title, focusMode, server, nextId, started>>

\* onToggle's catch
OnToggleFail(c) ==
  /\ c.kind = "patch" /\ c.st = "req"
  /\ Catch(UpdateMsg)
  /\ tasks' = ToggleRevert(tasks, c.task)
  /\ calls' = calls \ {c}
  /\ Handled(c, FALSE)
  /\ UNCHANGED <<loading, title, focusMode, timer, server, nextId, started>>

\* onDelete(task), up to its await; prev is the list of the current render
OnDelete(task) ==
  /\ started < MaxMutations
  /\ Begin
  /\ tasks' = DeleteOptimistic(tasks, task)
  /\ LET c == [kind |-> "delete", seq |-> started + 1, st |-> "req",
               task |-> task, prev |-> tasks]
     IN calls' = calls \cup {c}
  /\ UNCHANGED <<loading, title, focusMode, server, nextId, done>>

\* onDelete, after its await resolved
OnDeleteOk(c) ==
  /\ c.kind = "delete" /\ c.st = "ok"
  /\ SetSavedSoon
  /\ calls' = calls \ {c}
  /\ Handled(c, TRUE)
  /\ UNCHANGED <<tasks, loading, error, title, focusMode, server, nextId,
                 started>>

\* onDelete's catch
OnDeleteFail(c) ==
  /\ c.kind = "delete" /\ c.st = "req"
  /\ Catch(DeleteMsg)
  /\ tasks' = DeleteRestore(tasks, c.prev)
  /\ calls' = calls \ {c}
  /\ Handled(c, FALSE)
  /\ UNCHANGED <<loading, title, focusMode, timer, server, nextId, started>>

\* the focus-mode switch: onCheckedChange={setFocusMode}
FocusSwitch ==
  /\ focusMode' = ~focusMode
  /\ UNCHANGED <<tasks, loading, error, title, saveState, timer, calls,
                 server, nextId, started, done, newest>>

\* the empty state's "Show completed" button: setFocusMode(false)
ShowCompleted ==
  /\ ~loading /\ visibleTasks = <<>> /\ tasks # <<>> /\ focusMode
  /\ focusMode' = FALSE
  /\ UNCHANGED <<tasks, loading, error, title, saveState, timer, calls,
                 server, nextId, started, done, newest>>

\* the rows on screen: none while the loading message is shown
Rows == IF loading THEN <<>> ELSE visibleTasks

Next ==
  \/ \E c \in calls : ServerList(c)
  \/ \E c \in calls : ServerCreate(c)
  \/ \E c \in calls : ServerPatch(c)
  \/ \E c \in calls : ServerDelete(c)
  \/ TimerFire
  \/ Refresh
  \/ \E c \in calls : LoadOk(c)
  \/ \E c \in calls : LoadFail(c)
  \/ \E s \in Typed : SetTitle(s)
  \/ Escape
  \/ OnAddRejected
  \/ OnAdd
  \/ \E c \in calls : OnAddOk(c)
  \/ \E c \in calls : OnAddFail(c)
  \/ \E i \in 1..Len(Rows) : OnToggle(Rows[i])
  \/ \E c \in calls : OnToggleOk(c)
  \/ \E c \in calls : OnToggleFail(c)
  \/ \E i \in 1..Len(Rows) : OnDelete(Rows[i])
  \/ \E c \in calls : OnDeleteOk(c)
  \/ \E c \in calls : OnDeleteFail(c)
  \/ FocusSwitch
  \/ ShowCompleted

Spec == Init /\ [][Next]_vars

\* the board with nothing but the input and the add button in use; the text,
\* typed into the empty input while no add is in flight, ranges over every
\* text of at most MaxTitleLen characters
TypeAny ==
  /\ Pending = {}
  /\ title = <<>>
  /\ \E s \in TitleInputs : SetTitle(s)

NextInput ==
  \/ \E c \in calls : ServerList(c)
  \/ \E c \in calls : ServerCreate(c)
  \/ TimerFire
  \/ \E c \in calls : LoadOk(c)
  \/ \E c \in calls : LoadFail(c)
  \/ TypeAny
  \/ Escape
  \/ OnAddRejected
  \/ OnAdd
  \/ \E c \in calls : OnAddOk(c)
  \/ \E c \in calls : OnAddFail(c)

SpecInput == Init /\ [][NextInput]_vars

\* ------------------------------------------------- derived statistics
\* the numbers of the progress line are exact fractions num / den, den > 0
Frac(n, d) == [num |-> n, den |-> d]
FracLeq(a, b) == a.num * b.den <= b.num * a.den
FracMin(a, b) == IF FracLeq(a, b) THEN a ELSE b
FracMax(a, b) == IF FracLeq(a, b) THEN b ELSE a

\* Math.min(max, Math.max(min, n))
clamp(n, min, max) == FracMin(max, FracMax(min, n))

\* mutant: the fraction is cut off
formatPercent_Floor(n) == n.num \div n.den

\* Math.round(n), the nearest integer with halves going up; the "%" is left out
formatPercent(n) == (2 * n.num + n.den) \div (2 * n.den)

\* tasks.filter((t) => t.completed).length
completedCount == Len(SelectSeq(tasks, LAMBDA t : t.completed))

totalCount == Len(tasks)

\* clamp((completedCount / totalCount) * 100, 0, 100), 0 for the empty list
percent ==
  IF totalCount = 0 THEN Frac(0, 1)
  ELSE clamp(Frac(completedCount * 100, totalCount), Frac(0, 1), Frac(100, 1))

\* the progress text's number: formatPercent(percent)
shownPercent == formatPercent(percent)

\* ------------------------------------------------------------- claims
Entries(list, id) == {i \in 1..Len(list) : list[i].id = id}

\* C1: when the catch of a toggle on task T has run, every entry of T still in
\* the local list carries the completed flag the clicked row had when the
\* toggle was issued, whatever was issued or handled in between.
C1_FailedToggleRestoresFlag ==
  [][\A c \in calls :
       OnToggleFail(c) =>
         \A i \in Entries(tasks', c.task.id) :
           tasks'[i].completed = c.task.completed]_vars

\* a failed toggle was handled last, a call issued after it is still awaited,
\* and its task is in the list
C1_Witness ==
  /\ saveState = "error" /\ error = UpdateMsg /\ ~done.ok
  /\ newest = "pending"
  /\ Entries(tasks, done.id) # {}

\* C2: when the catch of a delete has run, the local list is the list of the
\* render in which the delete was issued: the same entries in the same order.
C2_FailedDeleteRestoresList ==
  [][\A c \in calls : OnDeleteFail(c) => tasks' = c.prev]_vars

\* a failed delete was handled last and the restored list holds two tasks
C2_Witness ==
  /\ saveState = "error" /\ error = DeleteMsg /\ ~done.ok
  /\ Len(tasks) >= 2
  /\ Entries(tasks, done.id) # {}

Content(list) == {<<list[i].id, list[i].completed>> : i \in 1..Len(list)}

\* the board with every load succeeding
NextLoaded ==
  \/ \E c \in calls : ServerList(c)
  \/ \E c \in calls : ServerCreate(c)
  \/ \E c \in calls : ServerPatch(c)
  \/ \E c \in calls : ServerDelete(c)
  \/ TimerFire
  \/ Refresh
  \/ \E c \in calls : LoadOk(c)
  \/ \E s \in Typed : SetTitle(s)
  \/ Escape
  \/ OnAddRejected
  \/ OnAdd
  \/ \E c \in calls : OnAddOk(c)
  \/ \E c \in calls : OnAddFail(c)
  \/ \E i \in 1..Len(Rows) : OnToggle(Rows[i])
  \/ \E c \in calls : OnToggleOk(c)
  \/ \E c \in calls : OnToggleFail(c)
  \/ \E i \in 1..Len(Rows) : OnDelete(Rows[i])
  \/ \E c \in calls : OnDeleteOk(c)
  \/ \E c \in calls : OnDeleteFail(c)
  \/ FocusSwitch
  \/ ShowCompleted

SpecLoaded == Init /\ [][NextLoaded]_vars

\* C3: the load on mount having succeeded (no load fails under SpecLoaded),
\* in every state with no call in flight the local list holds the ids and
\* completed flags of the backend's list.
C3_QuietMeansConsistent ==
  calls = {} => Content(tasks) = Content(server)

\* C4: the revert armed by a success never sets the status to idle once a
\* mutating action has started during its dwell.
C4_NewActionCancelsRevert ==
  [][TimerFire => ~timer.stale]_vars

\* C5: a status of error changes only in the step in which the user starts
\* the next mutating action; stated for the case that no other mutating call
\* is in flight, where the revert timer is the one other event left.
C5_ErrorStaysUntilNextAction ==
  [][(saveState = "error" /\ Pending = {} /\ saveState' # "error") =>
       started' > started]_vars

\* C6 as stated: with no mutating call in flight, a status of saved or error
\* tells how the mutating action issued last has ended.
C6_StatusOfLastIssued ==
  (Pending = {} /\ saveState \in {"saved", "error"}) =>
    /\ saveState = "saved" <=> newest = "ok"
    /\ saveState = "error" <=> newest = "fail"

\* C6: with no mutating call in flight, a status of saved or error tells how
\* the mutating action whose response was handled last has ended.
C6_StatusOfLastHandled ==
  (Pending = {} /\ saveState \in {"saved", "error"}) =>
    /\ saveState = "saved" <=> done.ok
    /\ saveState = "error" <=> ~done.ok

\* two actions were in flight at once, the one issued first was handled last
\* and the two ended differently
C6_Witness ==
  /\ Pending = {} /\ saveState \in {"saved", "error"}
  /\ newest = (IF done.ok THEN "fail" ELSE "ok")

Blanks(s) == {i \in 1..Len(s) : s[i] = " "}
\* what is left of s between its first and its last character that is no blank
TrimmedLen(s) ==
  LET solid == (1..Len(s)) \ Blanks(s)
  IN IF solid = {} THEN 0
     ELSE (CHOOSE j \in solid : \A k \in solid : k <= j)
          - (CHOOSE i \in solid : \A k \in solid : i <= k) + 1
AddPressed == OnAddRejected \/ OnAdd

\* C7: pressing add with a title of fewer than 3 characters after trimming
\* issues no call, sets the validation message and leaves the task list, the
\* save status and the input text as they were.
C7_ShortTitleRejected ==
  [][(AddPressed /\ TrimmedLen(title) < 3) =>
       /\ error' = ValidationMsg
       /\ UNCHANGED <<tasks, saveState, title, calls, started>>]_vars

\* a text of 3 characters, fewer after trimming, was rejected
C7_Witness ==
  /\ error = ValidationMsg
  /\ Len(title) >= 3 /\ TrimmedLen(title) < 3
  /\ calls = {} /\ started = 0 /\ saveState = "idle"

\* C8: when the successful response of a toggle on task T has been handled,
\* every entry of T in the local list is the Task of that response, so with
\* several toggles of T in flight the response handled last decides.
C8_LastResponseWins ==
  [][\A c \in calls :
       OnToggleOk(c) =>
         \A i \in Entries(tasks', c.task.id) : tasks'[i] = c.res]_vars

\* two toggles of one task have succeeded, the one issued first was handled
\* last, and the entry shows what that one asked for, not the backend's flag
C8_Witness ==
  /\ saveState = "saved" /\ done.ok /\ done.late
  /\ Pending = {}
  /\ \E i \in Entries(tasks, done.id) :
       /\ ServerHas(done.id)
       /\ tasks[i].completed # ServerTask(done.id).completed

\* C9: the catch of an add, a toggle or a delete ends the handler with the
\* status error and that action's message in the banner, and leaves the
\* loading flag, the one state that disables controls, as it was.
C9_FailureCaught ==
  [][\A c \in Pending :
       (CASE c.kind = "create" -> OnAddFail(c)
          [] c.kind = "patch" -> OnToggleFail(c)
          [] c.kind = "delete" -> OnDeleteFail(c)) =>
         /\ saveState' = "error"
         /\ error' = (CASE c.kind = "create" -> AddMsg
                        [] c.kind = "patch" -> UpdateMsg
                        [] c.kind = "delete" -> DeleteMsg)
         /\ error' # ""
         /\ c \notin calls'
         /\ UNCHANGED <<loading, focusMode, title>>]_vars

\* a failure has been handled and the board shows its rows
C9_Witness ==
  /\ saveState = "error" /\ error \in {AddMsg, UpdateMsg, DeleteMsg}
  /\ ~done.ok
  /\ ~loading /\ Rows # <<>>

Open == {i \in 1..Len(tasks) : ~tasks[i].completed}
\* the k-th open entry of the task list
OpenAt(k) ==
  tasks[CHOOSE i \in Open : Cardinality({j \in Open : j <= i}) = k]

\* C10: with focus mode on the rendered list is the open tasks in the list's
\* order, with it off the whole list; switching focus mode changes nothing
\* but the flag and issues no call.
C10_FocusIsViewFilter ==
  /\ [](IF focusMode
        THEN /\ Len(visibleTasks) = Cardinality(Open)
             /\ \A k \in 1..Len(visibleTasks) : visibleTasks[k] = OpenAt(k)
        ELSE visibleTasks = tasks)
  /\ [][focusMode' # focusMode =>
          UNCHANGED <<tasks, saveState, error, calls, loading, title, timer,
                      server>>]_vars

\* focus mode is on and hides a completed task standing before an open one
C10_Witness ==
  /\ focusMode
  /\ \E i, j \in 1..Len(tasks) :
       i < j /\ tasks[i].completed /\ ~tasks[j].completed
  /\ Len(visibleTasks) < Len(tasks)

\* C11: in every state the completed count is at most the total count, the
\* number shown is the integer nearest to 100 * completed / total (a half going
\* up), lies in 0..100, and is 0 for the empty list.
C11_PercentRounded ==
  /\ completedCount <= totalCount
  /\ shownPercent \in 0..100
  /\ totalCount = 0 => shownPercent = 0
  /\ totalCount > 0 =>
       /\ 2 * shownPercent * totalCount <= 200 * completedCount + totalCount
       /\ 200 * completedCount + totalCount
            < 2 * shownPercent * totalCount + 2 * totalCount

\* two of three tasks are completed: 66.67 is shown as 67
C11_Witness ==
  /\ totalCount = 3 /\ completedCount = 2
  /\ shownPercent = 67

\* C12: when the successful response of an add has been handled, the local
\* list is the list as it was with the returned Task after its last entry, and
\* the input is empty; when the catch of an add has run, the list is as it was.
C12_AddAppendsLast ==
  [][\A c \in InFlight({"create"}) :
       /\ OnAddOk(c) =>
            /\ Len(tasks') = Len(tasks) + 1
            /\ tasks'[Len(tasks')] = c.res
            /\ \A i \in 1..Len(tasks) : tasks'[i] = tasks[i]
            /\ title' = <<>>
       /\ OnAddFail(c) => tasks' = tasks]_vars

\* an add has succeeded last: the new task stands after the loaded ones and
\* the input is empty
C12_Witness ==
  /\ saveState = "saved" /\ done.ok /\ done.id = 0
  /\ Len(tasks) > Len(Seed)
  /\ tasks[Len(tasks)].id > Len(Seed)
  /\ tasks[1].id <= Len(Seed)
  /\ title = <<>>

\* C13: the loading flag is set exactly while a list call is in flight; a load
\* that fails sets the reload message, leaves the task list as it was and
\* ends the loading; a load that succeeds makes the returned sequence the
\* task list and ends the loading.
C13_LoadSetsFlagAndIsSafe ==
  /\ [](loading <=> InFlight({"list"}) # {})
  /\ [][\A c \in InFlight({"list"}) :
          /\ LoadFail(c) => error' = LoadMsg /\ tasks' = tasks /\ ~loading'
          /\ LoadOk(c) => tasks' = c.data /\ ~loading']_vars

\* a refresh has failed after tasks were loaded: the list is still shown
C13_Witness ==
  /\ ~loading /\ error = LoadMsg
  /\ InFlight({"list"}) = {}
  /\ tasks # <<>>

\* an add that passes validation, a toggle or a delete is issued
Issued ==
  \/ OnAdd
  \/ \E i \in 1..Len(Rows) : OnToggle(Rows[i])
  \/ \E i \in 1..Len(Rows) : OnDelete(Rows[i])

\* C14: the step that issues an add, a toggle or a delete ends with the status
\* saving, whatever the status was, and with the action's call unanswered.
C14_IssueSetsSaving ==
  [][Issued =>
       /\ saveState' = "saving"
       /\ \E c \in calls' \ calls :
            c.kind \in Mutating /\ c.st = "req" /\ c.seq = started']_vars

\* an action was issued while the status was saved and is still unanswered:
\* the status is saving
C14_Witness ==
  /\ saveState = "saving"
  /\ timer.armed /\ timer.stale
  /\ \E c \in Pending : c.seq = started /\ c.st = "req"

\* C15: no two entries of the local list carry the same id (the backend
\* assigns every id once and its list responses hold every id once).
C15_LocalIdsUnique ==
  \A i, j \in 1..Len(tasks) : tasks[i].id = tasks[j].id => i = j

\* the backend has deleted the task and the response has been handled
DeleteConfirmed(id) ==
  /\ ~ServerHas(id)
  /\ \A c \in InFlight({"delete"}) : ~(c.st = "ok" /\ c.task.id = id)

\* C16: a task whose delete has succeeded and which is not in the local list
\* enters the list again in no step but the handling of a load's response.
C16_ConfirmedDeleteStays ==
  [][\A id \in 1..(nextId - 1) :
       (DeleteConfirmed(id) /\ Entries(tasks, id) = {}
          /\ Entries(tasks', id) # {})
         => \E c \in InFlight({"list"}) : LoadOk(c)]_vars

\* the step keeps the length of the list, the id at every position, and every
\* entry with an id other than id
OnlyEntryTouched(id) ==
  /\ Len(tasks') = Len(tasks)
  /\ \A i \in 1..Len(tasks) :
       /\ tasks'[i].id = tasks[i].id
       /\ tasks[i].id # id => tasks'[i] = tasks[i]

\* C17: the optimistic flip, the reconciliation and the revert of a toggle on
\* task T leave the length and the order of the local list and every entry of
\* another task as they were; T is not put back when the list lacks it.
C17_ToggleTouchesOwnEntry ==
  [][/\ \A i \in 1..Len(Rows) :
          OnToggle(Rows[i]) => OnlyEntryTouched(Rows[i].id)
     /\ \A c \in InFlight({"patch"}) :
          (OnToggleOk(c) \/ OnToggleFail(c)) => OnlyEntryTouched(c.task.id)]_vars

\* the catch of a toggle has run after its task was removed from the list:
\* the list, not empty, is without the task
C17_Witness ==
  /\ saveState = "error" /\ error = UpdateMsg /\ ~done.ok
  /\ tasks # <<>>
  /\ Entries(tasks, done.id) = {}

\* a mutating call is answered by the backend, or its response or its failure
\* is handled
Resolve ==
  \E c \in Pending :
    \/ ServerCreate(c) \/ ServerPatch(c) \/ ServerDelete(c)
    \/ OnAddOk(c) \/ OnAddFail(c)
    \/ OnToggleOk(c) \/ OnToggleFail(c)
    \/ OnDeleteOk(c) \/ OnDeleteFail(c)

\* the board with every mutating call resolving or rejecting in the end and
\* the timeout firing in the end
SpecLive == Init /\ [][Next]_vars /\ WF_vars(Resolve) /\ WF_vars(TimerFire)

\* C18: a status of saving is followed by a status of saved or error; and
\* when from some state on no mutating call is in flight and the response
\* handled last was a success, the status becomes idle and stays idle.
C18_SavingEnds ==
  /\ (saveState = "saving") ~> (saveState \in {"saved", "error"})
  /\ <>[](Pending = {} /\ done.ok) => <>[](saveState = "idle")

\* the last action has succeeded, nothing is in flight and the revert has
\* fired: the status is idle
C18_Witness ==
  /\ saveState = "idle" /\ ~timer.armed
  /\ started > 0 /\ Pending = {} /\ done.ok

====
